---- MODULE Spec2Model ----
(***************************************************************************)
(* Model of the statistical engines of mcp-server/var_stats.py: anova,     *)
(* tukey_test and embedding_clustering.  Each engine fetches rows through  *)
(* db_connection.read_only_query and hands them to a numerical library.    *)
(* One action models one whole engine call on the rows the query returned. *)
(*                                                                         *)
(* Library calls are modelled by what the libraries do on the data:        *)
(*   scipy.stats.f_oneway          exact rational F = MSB / MSW            *)
(*   statsmodels pairwise_tukeyhsd pairs of the sorted unique labels, with *)
(*                                 reject = |meandiff|/std > q_crit        *)
(*   sklearn TSNE / hdbscan.HDBSCAN abstract coordinates that depend on    *)
(*                                 the input and on the random state used  *)
(* A Python exception leaving an engine is the record Raise(type, origin). *)
(***************************************************************************)
EXTENDS Integers, Sequences, FiniteSets, TLC

(***************************************************************************)
(* Bounds of the model.                                                    *)
(***************************************************************************)
MaxRows == 3
NumLabels == 3
MaxMinSample == 2

(***************************************************************************)
(* Row values.  A label stands for a product_type string; labels compare   *)
(* as the strings do (1 < 2 < 3 as "A" < "B" < "C").  The measurement of a *)
(* row is None, a Python int, or a non-int numeric (Decimal/float) kept in *)
(* tenths.                                                                 *)
(***************************************************************************)
Labels == 1..NumLabels

NoneValue == [t |-> "none", v |-> 0]

IntValue(n) == [t |-> "int", v |-> n]

DecValue(tenths) == [t |-> "dec", v |-> tenths]

Ages == {NoneValue, IntValue(1), DecValue(25)}

Row(l, a) == [product_type |-> l, age |-> a]

RowSet == {Row(l, a) : l \in Labels, a \in Ages}

SeqsUpTo(S, n) == UNION {[1..m -> S] : m \in 0..n}

(* The table of the scenario A:3 samples, B:4 samples, C:2 samples, which  *)
(* min_sample_size = 3 reduces to B alone.                                 *)
ScenarioRows ==
    << Row(1, IntValue(1)), Row(2, IntValue(1)), Row(3, IntValue(1)),
       Row(1, DecValue(25)), Row(2, DecValue(25)), Row(3, DecValue(25)),
       Row(2, IntValue(1)), Row(1, IntValue(1)), Row(2, DecValue(25)) >>

(* Three groups met in the order B, A, C: B well separated from A and C,   *)
(* and a null row of C before its first sample.                            *)
SeparatedRows ==
    << Row(2, IntValue(7)), Row(1, IntValue(1)), Row(3, NoneValue),
       Row(2, IntValue(8)), Row(3, DecValue(25)), Row(1, IntValue(2)),
       Row(3, IntValue(1)) >>

NamedTables == {ScenarioRows, SeparatedRows}

(* Three groups with the same mean 3/2 and non-zero variance.              *)
EqualMeansRows ==
    << Row(1, IntValue(1)), Row(2, IntValue(2)), Row(3, DecValue(25)),
       Row(2, IntValue(1)), Row(1, IntValue(2)), Row(3, IntValue(1)) >>

TableInputs == SeqsUpTo(RowSet, MaxRows) \cup NamedTables \cup {EqualMeansRows}

MinSampleInputs == 0..MaxMinSample

(***************************************************************************)
(* Exceptions and results.                                                 *)
(***************************************************************************)
Raise(type, origin) == [kind |-> "raise", type |-> type, origin |-> origin]

Return(value) == [kind |-> "return", value |-> value]

NoCall == [kind |-> "none"]

(***************************************************************************)
(* Group extraction (the loop and the dict comprehension shared by anova   *)
(* and tukey_test).  A dict is the sequence of its items in insertion      *)
(* order.                                                                  *)
(***************************************************************************)
Trunc10(t) == IF t >= 0 THEN t \div 10 ELSE -((-t) \div 10)

(* if not isinstance(age, int): age = int(age) *)
CoerceAge(age) == IF age.t = "int" THEN age.v ELSE Trunc10(age.v)

Keys(d) == {d[i].k : i \in DOMAIN d}

IndexOf(d, k) == CHOOSE i \in DOMAIN d : d[i].k = k

(* categories[product_type].append(age) on a defaultdict(list) *)
DictAppend(d, k, x) ==
    IF k \in Keys(d)
    THEN [d EXCEPT ![IndexOf(d, k)].v = Append(@, x)]
    ELSE Append(d, [k |-> k, v |-> <<x>>])

AddRowCountNull(categories, r) ==
    DictAppend(categories, r.product_type,
               IF r.age.t = "none" THEN 0 ELSE CoerceAge(r.age))

(* body of the loop: if age is not None: ... append *)
AddRow(categories, r) ==
    IF r.age.t # "none"
    THEN DictAppend(categories, r.product_type, CoerceAge(r.age))
    ELSE categories

RECURSIVE BuildCategories(_, _)
BuildCategories(result, categories) ==
    IF result = <<>>
    THEN categories
    ELSE BuildCategories(Tail(result), AddRow(categories, Head(result)))

KeepCategoryGE(v, min_sample_size) == Len(v) >= min_sample_size

(* the condition of the dict comprehension: len(v) > min_sample_size *)
KeepCategory(v, min_sample_size) == Len(v) > min_sample_size

FilterCategories(categories, min_sample_size) ==
    SelectSeq(categories, LAMBDA c : KeepCategory(c.v, min_sample_size))

TukeyFilterGE(categories, min_sample_size) ==
    SelectSeq(categories, LAMBDA c : KeepCategoryGE(c.v, min_sample_size))

(* the dict comprehension of tukey_test, a copy of the one of anova *)
TukeyFilterCategories(categories, min_sample_size) ==
    SelectSeq(categories, LAMBDA c : Len(c.v) > min_sample_size)

ExtractGroups(result, min_sample_size) ==
    FilterCategories(BuildCategories(result, <<>>), min_sample_size)

(***************************************************************************)
(* Sums over the groups, as exact integers.                                *)
(***************************************************************************)
RECURSIVE SumSeq(_)
SumSeq(s) == IF s = <<>> THEN 0 ELSE Head(s) + SumSeq(Tail(s))

RECURSIVE SumSqSeq(_)
SumSqSeq(s) == IF s = <<>> THEN 0 ELSE Head(s) * Head(s) + SumSqSeq(Tail(s))

RECURSIVE TotalObs(_)
TotalObs(groups) ==
    IF groups = <<>> THEN 0 ELSE Len(Head(groups).v) + TotalObs(Tail(groups))

RECURSIVE TotalSum(_)
TotalSum(groups) ==
    IF groups = <<>> THEN 0 ELSE SumSeq(Head(groups).v) + TotalSum(Tail(groups))

RECURSIVE ProdObs(_)
ProdObs(groups) ==
    IF groups = <<>> THEN 1 ELSE Len(Head(groups).v) * ProdObs(Tail(groups))

(* Within-group sum of squares times ProdObs(all): sum (Q_g - S_g^2/n_g).  *)
RECURSIVE WithinSSxL(_, _)
WithinSSxL(groups, L) ==
    IF groups = <<>> THEN 0
    ELSE LET g == Head(groups).v
             S == SumSeq(g)
         IN  SumSqSeq(g) * L - S * S * (L \div Len(g))
             + WithinSSxL(Tail(groups), L)

(* sum S_g^2/n_g, times L *)
RECURSIVE GroupSqxL(_, _)
GroupSqxL(groups, L) ==
    IF groups = <<>> THEN 0
    ELSE LET g == Head(groups).v
             S == SumSeq(g)
         IN  S * S * (L \div Len(g)) + GroupSqxL(Tail(groups), L)

BetweenSSUncentred(groups) == GroupSqxL(groups, ProdObs(groups)) * TotalObs(groups)

(* Between-group sum of squares times L*N: sum S_g^2/n_g - T^2/N.          *)
BetweenSSxLN(groups) ==
    LET L == ProdObs(groups)
        N == TotalObs(groups)
        T == TotalSum(groups)
    IN  GroupSqxL(groups, L) * N - T * T * L

(***************************************************************************)
(* scipy.stats.f_oneway on the list of samples.  Fewer than two samples is *)
(* a TypeError raised by the library; otherwise F = MSB / MSW with k-1 and *)
(* N-k degrees of freedom, kept as the fraction num/den (den = 0: inf when *)
(* num > 0, nan when num = 0).                                             *)
(***************************************************************************)
FRatio(samples) ==
    LET k == Len(samples)
        N == TotalObs(samples)
        L == ProdObs(samples)
    IN  [num |-> BetweenSSxLN(samples) * (N - k),
         den |-> N * WithinSSxL(samples, L) * (k - 1),
         dfn |-> k - 1,
         dfd |-> N - k]

f_oneway(samples) ==
    IF Len(samples) < 2
    THEN Raise("TypeError", "f_oneway")
    ELSE Return(FRatio(samples))

Round3Up(num, den) == ((1000 * num) \div den) + 1

(* round(x, 3) of num/den >= 0 in thousandths, ties to even.               *)
Round3(num, den) ==
    LET q == (1000 * num) \div den
        r == (1000 * num) % den
    IN  IF 2 * r > den \/ (2 * r = den /\ q % 2 = 1) THEN q + 1 ELSE q

RoundedFDefault(f) ==
    IF f.den = 0 THEN [t |-> "num", v |-> 0]
    ELSE [t |-> "num", v |-> Round3(f.num, f.den)]

RoundedF(f) ==
    IF f.den = 0
    THEN (IF f.num = 0 THEN [t |-> "nan", v |-> 0] ELSE [t |-> "inf", v |-> 0])
    ELSE [t |-> "num", v |-> Round3(f.num, f.den)]

(* Upper tail of F(dfn, dfd) at f, rounded: 1 at F = 0, 0 at inf, nan at   *)
(* nan; elsewhere the value is a function of (F, dfn, dfd).                *)
RoundedP(f) ==
    IF f.den = 0
    THEN (IF f.num = 0 THEN [t |-> "nan", v |-> 0] ELSE [t |-> "num", v |-> 0])
    ELSE IF f.num = 0 THEN [t |-> "num", v |-> 1000]
    ELSE [t |-> "sf", v |-> 0, at |-> <<f.num, f.den, f.dfn, f.dfd>>]


AnovaResult(groups) ==
    LET r == f_oneway(groups)
    IN  IF r.kind = "raise" THEN r
        ELSE Return([F |-> RoundedF(r.value), p |-> RoundedP(r.value)])

(***************************************************************************)
(* tukey_test: the flattened frame and statsmodels' pairwise_tukeyhsd.     *)
(***************************************************************************)
RECURSIVE FlatRows(_)
FlatRows(groups) ==
    IF groups = <<>> THEN <<>>
    ELSE LET c == Head(groups)
         IN  [i \in 1..Len(c.v) |-> [product_type_name |-> c.k, age |-> c.v[i]]]
             \o FlatRows(Tail(groups))

RECURSIVE SortedSeq(_)
SortedSeq(S) ==
    IF S = {} THEN <<>>
    ELSE LET m == CHOOSE x \in S : \A y \in S : x <= y
         IN  <<m>> \o SortedSeq(S \ {m})

RECURSIVE FirstSeen(_)
FirstSeen(flat) ==
    IF flat = <<>> THEN <<>>
    ELSE LET rest == FirstSeen(SelectSeq(Tail(flat),
                        LAMBDA r : r.product_type_name # Head(flat).product_type_name))
         IN  <<Head(flat).product_type_name>> \o rest

GroupsFirstSeen(flat) == FirstSeen(flat)

(* np.unique(groups): the distinct labels in ascending order *)
GroupsUnique(flat) ==
    SortedSeq({flat[i].product_type_name : i \in DOMAIN flat})

(* the observations of one label, in frame order *)
GroupData(flat, g) ==
    LET sel == SelectSeq(flat, LAMBDA r : r.product_type_name = g)
    IN  [i \in DOMAIN sel |-> sel[i].age]

(* np.triu_indices(k, 1): (1,2), (1,3), ..., (2,3), ... *)
TriuIndices(k) ==
    SelectSeq([n \in 1..(k * k) |-> <<((n - 1) \div k) + 1, ((n - 1) % k) + 1>>],
              LAMBDA p : p[1] < p[2])

(* Studentized range critical values q(0.95; k, df), times 100.            *)
QCrit100(k, df) ==
    CASE k = 2 /\ df = 1 -> 1797  [] k = 3 /\ df = 1 -> 2698
      [] k = 4 /\ df = 1 -> 3282
      [] k = 2 /\ df = 2 -> 608   [] k = 3 /\ df = 2 -> 833
      [] k = 4 /\ df = 2 -> 980
      [] k = 2 /\ df = 3 -> 450   [] k = 3 /\ df = 3 -> 591
      [] k = 4 /\ df = 3 -> 682
      [] k = 2 /\ df = 4 -> 393   [] k = 3 /\ df = 4 -> 504
      [] k = 4 /\ df = 4 -> 576
      [] k = 2 /\ df = 5 -> 364   [] k = 3 /\ df = 5 -> 460
      [] k = 4 /\ df = 5 -> 522
      [] k = 2 /\ df = 6 -> 346   [] k = 3 /\ df = 6 -> 434
      [] k = 4 /\ df = 6 -> 490
      [] k = 2 /\ df >= 7 -> 334  [] k = 3 /\ df >= 7 -> 416
      [] OTHER -> 468

Sign(x) == IF x > 0 THEN 1 ELSE IF x < 0 THEN -1 ELSE 0

(* Sign of the lower bound meandiff - halfwidth of the interval, where D   *)
(* has the sign of meandiff, M2 and H2 are meandiff^2 and halfwidth^2 on a *)
(* common positive scale, and halfwidth = q_crit * std_pairs >= 0.         *)
SignLower(D, M2, H2) ==
    IF D > 0 THEN Sign(M2 - H2)
    ELSE IF D = 0 /\ H2 = 0 THEN 0 ELSE -1

(* sign of the upper bound meandiff + halfwidth *)
SignUpper(D, M2, H2) ==
    IF D < 0 THEN Sign(H2 - M2)
    ELSE IF D = 0 /\ H2 = 0 THEN 0 ELSE 1

ComparisonLooseReject(g1, g2, x1, x2, k, df, sswL, L) ==
    LET n1 == Len(x1)
        n2 == Len(x2)
        D  == SumSeq(x2) * n1 - SumSeq(x1) * n2
        q  == QCrit100(k, df)
        M2 == D * D * 20000 * L * df
        H2 == q * q * sswL * (n1 + n2) * n1 * n2
    IN  [group1 |-> g1, group2 |-> g2,
         meandiff |-> <<D, n1 * n2>>,
         lower |-> SignLower(D, M2, H2),
         upper |-> SignUpper(D, M2, H2),
         reject |-> D # 0]

(* One comparison: meandiff = mean(group2) - mean(group1) as num/den,      *)
(* confint = meandiff -/+ q_crit * std_pairs kept as the signs of its two  *)
(* bounds, and reject = |meandiff| / std_pairs > q_crit, with              *)
(* std_pairs^2 = MSW * (1/n1 + 1/n2) / 2, compared in exact integers.      *)
Comparison(g1, g2, x1, x2, k, df, sswL, L) ==
    LET n1 == Len(x1)
        n2 == Len(x2)
        D  == SumSeq(x2) * n1 - SumSeq(x1) * n2
        q  == QCrit100(k, df)
        M2 == D * D * 20000 * L * df
        H2 == q * q * sswL * (n1 + n2) * n1 * n2
    IN  [group1 |-> g1, group2 |-> g2,
         meandiff |-> <<D, n1 * n2>>,
         lower |-> SignLower(D, M2, H2),
         upper |-> SignUpper(D, M2, H2),
         reject |-> D * D * 20000 * L * df > q * q * sswL * (n1 + n2) * n1 * n2]

(* pairwise_tukeyhsd(endog, groups, alpha).summary().data[1:], or the      *)
(* exception the library raises: fewer than 2 groups is a ValueError of    *)
(* MultiComparison, zero degrees of freedom a ValueError of qsturng.       *)
pairwise_tukeyhsd(flat) ==
    LET uniq   == GroupsUnique(flat)
        k      == Len(uniq)
        N      == Len(flat)
        groups == [i \in 1..k |-> [k |-> uniq[i], v |-> GroupData(flat, uniq[i])]]
        L      == ProdObs(groups)
        sswL   == WithinSSxL(groups, L)
        idx    == TriuIndices(k)
    IN  IF k < 2 THEN Raise("ValueError", "MultiComparison")
        ELSE IF N - k < 1 THEN Raise("ValueError", "qsturng")
        ELSE Return([n \in DOMAIN idx |->
                        Comparison(uniq[idx[n][1]], uniq[idx[n][2]],
                                   groups[idx[n][1]].v, groups[idx[n][2]].v,
                                   k, N - k, sswL, L)])

SignificantOrNot(tukey_df) == tukey_df

(* tukey_df[tukey_df['reject'] == True] *)
Significant(tukey_df) == SelectSeq(tukey_df, LAMBDA r : r.reject = TRUE)

(* The frame built from an empty list has no column 'age': flat_df['age']  *)
(* raises KeyError before the library is called.                           *)
TukeySummary(groups) ==
    LET flat_df == FlatRows(groups)
    IN  IF flat_df = <<>> THEN Raise("KeyError", "flat_df")
        ELSE pairwise_tukeyhsd(flat_df)

(***************************************************************************)
(* Embedding records: (id, vector) rows.  The tables of the model are the  *)
(* families below, of every length up to MaxRecords.                       *)
(***************************************************************************)
MaxRecords == 32

IdPatterns == {"asc", "desc"}

VecPatterns == {"blob", "two", "spread", "ragged"}

PatternId(idp, n, i) == IF idp = "asc" THEN i ELSE n + 1 - i

PatternVec(vp, n, i) ==
    CASE vp = "blob"   -> <<1, 1>>
      [] vp = "two"    -> IF i % 2 = 0 THEN <<1, 1>> ELSE <<9, 9>>
      [] vp = "spread" -> <<i, 2 * i>>
      [] vp = "ragged" -> IF i = n THEN <<1>> ELSE <<1, 1>>

Records(n, idp, vp) ==
    [i \in 1..n |-> [id |-> PatternId(idp, n, i), embedding |-> PatternVec(vp, n, i)]]

(* the row count the do_tsne_embedding docstring asks callers to stay under *)
AdvisoryLimit == 500

LargeEmbedding == Records(AdvisoryLimit + 1, "asc", "spread")

EmbeddingInputs ==
    {Records(n, idp, vp) : n \in 0..MaxRecords, idp \in IdPatterns, vp \in VecPatterns}
        \cup {LargeEmbedding}

DefaultEmbedding == Records(2, "desc", "two")

(***************************************************************************)
(* sklearn.manifold.TSNE(n_components=2, random_state=42) and              *)
(* hdbscan.HDBSCAN(min_cluster_size=10).                                   *)
(***************************************************************************)
perplexity == 30

min_cluster_size == 10

random_state_none == NoneValue

(* the random_state argument of the TSNE constructor *)
random_state == IntValue(42)

RngPeriod == 3

(* check_random_state(seed): an int seeds a fresh generator, None is the   *)
(* process-wide numpy generator in its current state.                      *)
CheckRandomState(seed, global) == IF seed.t = "none" THEN global ELSE seed.v

(* drawing from the process-wide generator advances it *)
AfterDraw(seed, global) ==
    IF seed.t = "none" THEN (global + 1) % RngPeriod ELSE global

EqualLengths(X) == \A i, j \in DOMAIN X : Len(X[i]) = Len(X[j])

(* The 2-D point of one vector: a stand-in for the optimised embedding,    *)
(* fixed by the input and by the state of the generator used.              *)
Project(x, X, rng) ==
    LET s == SumSeq(x) + Len(X)
    IN  <<(7 * s + rng) % 101, (3 * s + 2 * rng) % 103>>

(* TSNE.fit_transform(X): one 2-D row per input row, in input order; a     *)
(* ValueError when X is not a 2-D array or perplexity >= n_samples.        *)
fit_transform(X, rng) ==
    IF X = <<>> \/ ~EqualLengths(X) THEN Raise("ValueError", "check_array")
    ELSE IF perplexity >= Len(X) THEN Raise("ValueError", "perplexity")
    ELSE Return([i \in DOMAIN X |-> Project(X[i], X, rng)])

(* HDBSCAN.fit_predict(points): a dense region is a set of at least        *)
(* min_cluster_size coincident points; regions are numbered from 0 in the  *)
(* order their first point appears, every other point is noise (-1).       *)
Dense(points, i) ==
    Cardinality({j \in DOMAIN points : points[j] = points[i]}) >= min_cluster_size

FirstOf(points, i) == CHOOSE j \in DOMAIN points :
    /\ points[j] = points[i]
    /\ \A m \in DOMAIN points : points[m] = points[i] => j <= m

fit_predict(points) ==
    [i \in DOMAIN points |->
        IF Dense(points, i)
        THEN Cardinality({j \in 1..(FirstOf(points, i) - 1) :
                            Dense(points, j) /\ FirstOf(points, j) = j})
        ELSE -1]

IdsSorted(result) == SortedSeq({result[i].id : i \in DOMAIN result})

(* ids = [item[0] for item in result] *)
Ids(result) == [i \in DOMAIN result |-> result[i].id]

ArticleEmbeddingsCapped(result) ==
    [i \in 1..(IF Len(result) > AdvisoryLimit THEN AdvisoryLimit ELSE Len(result)) |->
        result[i].embedding]

(* article_embeddings = [item[1] for item in result] *)
ArticleEmbeddings(result) == [i \in DOMAIN result |-> result[i].embedding]

EmbeddingResult(result, rng) ==
    LET tsne_proj == fit_transform(ArticleEmbeddings(result), rng)
    IN  IF tsne_proj.kind = "raise" THEN tsne_proj
        ELSE Return([ids    |-> Ids(result),
                     x_axis |-> [i \in DOMAIN tsne_proj.value |-> tsne_proj.value[i][1]],
                     y_axis |-> [i \in DOMAIN tsne_proj.value |-> tsne_proj.value[i][2]],
                     labels |-> fit_predict(tsne_proj.value)])

(***************************************************************************)
(* The query executors.  A fault of the environment is "connect" (the      *)
(* server cannot be reached) or "query" (the statement fails).             *)
(***************************************************************************)
Executors == {"DatabaseInterface", "BigQueryInterface"}

FaultsOf(faulty) == IF faulty THEN {"none", "connect", "query"} ELSE {"none"}

(* a str returned in place of rows *)
Sentinel(text) == [kind |-> "sentinel", text |-> text]

(* DatabaseInterface.read_only_query: try: conn = get_db_connection() ...  *)
(* finally: conn.close().  When get_db_connection raises ConnectionError,  *)
(* conn is unbound in the finally clause and conn.close() raises           *)
(* UnboundLocalError, which is what leaves the method.                     *)
DatabaseReadOnlyQuery(rows, fault) ==
    CASE fault = "connect" ->
           [result |-> Raise("UnboundLocalError", "finally"), opened |-> 0, closed |-> 0]
      [] fault = "query" ->
           [result |-> Raise("psycopg2.Error", "execute"), opened |-> 1, closed |-> 1]
      [] OTHER ->
           [result |-> Return(rows), opened |-> 1, closed |-> 1]

(* BigQueryInterface.read_only_query: except Exception: return the text    *)
BigQueryReadOnlyQuery(rows, fault) ==
    IF fault = "none"
    THEN [result |-> Return(rows), opened |-> 0, closed |-> 0]
    ELSE [result |-> Sentinel("Error executing query"), opened |-> 0, closed |-> 0]

read_only_query_retried(db_connection, rows, fault) ==
    LET first  == IF db_connection = "DatabaseInterface"
                  THEN DatabaseReadOnlyQuery(rows, fault)
                  ELSE BigQueryReadOnlyQuery(rows, fault)
        second == IF db_connection = "DatabaseInterface"
                  THEN DatabaseReadOnlyQuery(rows, "none")
                  ELSE BigQueryReadOnlyQuery(rows, "none")
    IN  IF first.result.kind = "return" THEN first
        ELSE [result |-> second.result,
              opened |-> first.opened + second.opened,
              closed |-> first.closed + second.closed]

(* result = db_connection.read_only_query(query): the one call each engine *)
(* makes, as its first statement after building the query text             *)
read_only_query(db_connection, rows, fault) ==
    IF db_connection = "DatabaseInterface"
    THEN DatabaseReadOnlyQuery(rows, fault)
    ELSE BigQueryReadOnlyQuery(rows, fault)

(* what is kept of a fetch: the fault met and how the method ended *)
FetchNote(fault, result) ==
    [fault |-> fault, kind |-> result.kind,
     type |-> IF result.kind = "raise" THEN result.type ELSE "none"]

KeptCategories(previous) == previous

(* categories = defaultdict(list): a new dict in every call *)
NewCategories(previous) == <<>>

(* the functions module var_stats defines *)
VarStatsFunctions == {"anova", "tukey_test", "embedding_clustering"}

(* var_stats.<name>: the attribute lookup on the module *)
ModuleAttribute(name) ==
    IF name \in VarStatsFunctions THEN Return(name)
    ELSE Raise("AttributeError", "var_stats")

(***************************************************************************)
(* The stored tables the table operations work on, and the names a caller  *)
(* can write for them.  PostgreSQL folds an unquoted identifier to lower   *)
(* case and resolves a schema-qualified name to the same table.            *)
(***************************************************************************)
CoreTables == {"transactions", "customers", "articles"}

StoredTables == CoreTables \cup {"tmp"}

TableNames == StoredTables \cup {"public.articles", "Customers"}

Resolve(table_name) ==
    CASE table_name = "public.articles" -> "articles"
      [] table_name = "Customers" -> "customers"
      [] OTHER -> table_name

(* table_name != "transactions" and table_name != "customers" and ...      *)
NotSystemTable(table_name) ==
    table_name # "transactions" /\ table_name # "customers" /\ table_name # "articles"

(***************************************************************************)
(* State.                                                                  *)
(***************************************************************************)
VARIABLES
    age_table,            \* rows of the (label, value) table the queries read
    embedding_table,      \* rows of the (id, vector) table the queries read
    np_random,            \* state of the process-wide numpy generator
    call,                 \* the engine call last made: op and its parameter
    categories_filtered,  \* the grouped dataset built by that call
    tukey_df,             \* the full comparison table of that call
    ret,                  \* what the call gave its caller
    earlier,              \* an embedding_clustering result observed earlier
    executor,             \* the class of the db_connection object in use
    db_faults,            \* whether the environment produces faults
    fetch,                \* fault and ending of the last read_only_query
    conn,                 \* connections opened and closed by the last call
    categories,           \* the categories dict of the last grouping call
    stored,               \* state of each stored table of the database
    threads,              \* the engine call each server thread is running
    db_interface,         \* the global db_interface of app.py
    db_connection_status  \* the global db_connection_status of app.py

vars == <<age_table, embedding_table, np_random, call, categories_filtered,
          tukey_df, ret, earlier, executor, db_faults, fetch, conn,
          categories, stored, threads, db_interface, db_connection_status>>

tables == <<age_table, embedding_table>>

environment == <<executor, db_faults, db_interface, db_connection_status>>

(* db_interface = None *)
NoInterface == [db_config |-> "None"]

(* DatabaseInterface(db_config) *)
Interface(host) == [db_config |-> host]

Status(connected, text, host) == [connected |-> connected, text |-> text, host |-> host]

NotConnectedStatus == Status(FALSE, "Not Connected", "")

(* the globals after setup_database_connection has succeeded for host A *)
SetUp ==
    /\ db_interface = Interface("A")
    /\ db_connection_status = Status(TRUE, "Connected to", "A")

NumThreads == 2

Threads == 1..NumThreads

Idle == [pc |-> "idle", op |-> "none", min_sample_size |-> 0, result |-> <<>>,
         ret |-> NoCall, overlapped |-> FALSE]

NoFetch == [fault |-> "none", kind |-> "none", type |-> "none"]

NoConn == [opened |-> 0, closed |-> 0]

InitCall ==
    /\ np_random = 0
    /\ call = [op |-> "none", min_sample_size |-> 0]
    /\ categories_filtered = <<>>
    /\ tukey_df = <<>>
    /\ ret = NoCall
    /\ earlier = NoCall
    /\ fetch = NoFetch
    /\ conn = NoConn
    /\ categories = <<>>
    /\ stored = [t \in StoredTables |-> "original"]
    /\ threads = [t \in Threads |-> Idle]

(* A healthy PostgreSQL server. *)
Init ==
    /\ \/ age_table \in TableInputs /\ embedding_table = DefaultEmbedding
       \/ age_table \in NamedTables /\ embedding_table \in EmbeddingInputs
    /\ executor = "DatabaseInterface"
    /\ db_faults = FALSE
    /\ SetUp
    /\ InitCall

(***************************************************************************)
(* anova(db_connection, table_name, min_sample_size)                       *)
(***************************************************************************)
anova(min_sample_size) ==
    \E fault \in FaultsOf(db_faults) :
      LET q      == read_only_query(executor, age_table, fault)
          result == q.result
      IN  /\ call' = [op |-> "anova", min_sample_size |-> min_sample_size]
          /\ fetch' = FetchNote(fault, result)
          /\ conn' = [opened |-> q.opened, closed |-> q.closed]
          /\ categories' =
                CASE result.kind = "return" ->
                       BuildCategories(result.value, NewCategories(categories))
                  [] result.kind = "sentinel" -> NewCategories(categories)
                  [] OTHER -> categories
          /\ categories_filtered' =
                IF result.kind = "return"
                THEN FilterCategories(categories', min_sample_size)
                ELSE <<>>
          /\ ret' = CASE result.kind = "return" -> AnovaResult(categories_filtered')
                      [] result.kind = "sentinel" -> Raise("ValueError", "unpack")
                      [] OTHER -> result
          /\ tukey_df' = <<>>
          /\ UNCHANGED <<tables, np_random, earlier, environment, stored, threads>>

(***************************************************************************)
(* tukey_test(db_connection, table_name, min_sample_size)                  *)
(***************************************************************************)
tukey_test(min_sample_size) ==
    \E fault \in FaultsOf(db_faults) :
      LET q      == read_only_query(executor, age_table, fault)
          result == q.result
      IN  /\ call' = [op |-> "tukey_test", min_sample_size |-> min_sample_size]
          /\ fetch' = FetchNote(fault, result)
          /\ conn' = [opened |-> q.opened, closed |-> q.closed]
          /\ categories' =
                CASE result.kind = "return" ->
                       BuildCategories(result.value, NewCategories(categories))
                  [] result.kind = "sentinel" -> NewCategories(categories)
                  [] OTHER -> categories
          /\ categories_filtered' =
                IF result.kind = "return"
                THEN TukeyFilterCategories(categories', min_sample_size)
                ELSE <<>>
          /\ \E tukey \in {TukeySummary(categories_filtered')} :
                /\ tukey_df' = IF result.kind = "return" /\ tukey.kind = "return"
                               THEN tukey.value ELSE <<>>
                /\ ret' = CASE result.kind = "return" ->
                                 (IF tukey.kind = "return"
                                  THEN Return(Significant(tukey_df'))
                                  ELSE tukey)
                            [] result.kind = "sentinel" -> Raise("ValueError", "unpack")
                            [] OTHER -> result
          /\ UNCHANGED <<tables, np_random, earlier, environment, stored, threads>>

(***************************************************************************)
(* embedding_clustering(db_connection, query).  The observer may keep the  *)
(* result a call returned in `earlier` to compare it with a later one.     *)
(***************************************************************************)
embedding_clustering ==
    \E fault \in FaultsOf(db_faults) :
      LET q      == read_only_query(executor, embedding_table, fault)
          result == q.result
      IN  /\ call' = [op |-> "embedding_clustering", min_sample_size |-> 0]
          /\ fetch' = FetchNote(fault, result)
          /\ conn' = [opened |-> q.opened, closed |-> q.closed]
          /\ ret' = CASE result.kind = "return" ->
                           EmbeddingResult(result.value,
                                           CheckRandomState(random_state, np_random))
                      [] result.kind = "sentinel" -> Raise("IndexError", "item")
                      [] OTHER -> result
          /\ np_random' = IF result.kind = "return"
                          THEN AfterDraw(random_state, np_random)
                          ELSE np_random
          /\ categories_filtered' = <<>>
          /\ tukey_df' = <<>>
          /\ \E keep \in (IF ret'.kind = "return" THEN BOOLEAN ELSE {FALSE}) :
                earlier' = IF keep THEN ret' ELSE earlier
          /\ UNCHANGED <<tables, environment, categories, stored, threads>>

(***************************************************************************)
(* do_vector_centroid(query) of app.py:                                    *)
(*     return var_stats.vector_centroid(db_interface, query)               *)
(* The attribute is looked up on the module before anything is fetched.    *)
(***************************************************************************)
do_vector_centroid ==
    /\ call' = [op |-> "do_vector_centroid", min_sample_size |-> 0]
    /\ ret' = ModuleAttribute("vector_centroid")
    /\ fetch' = NoFetch
    /\ conn' = NoConn
    /\ categories_filtered' = <<>>
    /\ tukey_df' = <<>>
    /\ UNCHANGED <<tables, np_random, earlier, environment, categories, stored,
                 threads>>

Next ==
    \/ \E m \in MinSampleInputs : anova(m)
    \/ \E m \in MinSampleInputs : tukey_test(m)
    \/ embedding_clustering
    \/ do_vector_centroid

Spec == Init /\ [][Next]_vars

(***************************************************************************)
(* The query and table operations of app.py on its DatabaseInterface.      *)
(* cur.execute(query) sends the whole text: a text may hold several        *)
(* statements.  "write" is a data-changing statement (refused inside the   *)
(* READ ONLY transaction); "commit_write" is COMMIT followed by such a     *)
(* statement, which then runs outside that transaction.                    *)
(***************************************************************************)
QueryTexts == {"select", "write", "commit_write"}

(* DatabaseInterface.read_only_query(query) on the stored tables: the      *)
(* statement of the text, if any, changes table `target`.                  *)
ReadOnlyQueryOnStore(query, target, rows, fault, store) ==
    LET q == DatabaseReadOnlyQuery(rows, fault)
    IN  CASE q.result.kind = "raise" ->
               [result |-> q.result, store |-> store,
                opened |-> q.opened, closed |-> q.closed]
          [] query = "select" ->
               [result |-> q.result, store |-> store, opened |-> 1, closed |-> 1]
          [] query = "write" ->
               [result |-> Raise("psycopg2.Error", "read-only transaction"),
                store |-> store, opened |-> 1, closed |-> 1]
          [] OTHER ->
               [result |-> Raise("psycopg2.Error", "fetchall"),
                store |-> [store EXCEPT ![target] = "absent"],
                opened |-> 1, closed |-> 1]

(* DatabaseInterface.drop_table(table_name) *)
DropTable(table_name, fault, store) ==
    CASE fault = "connect" ->
           [result |-> Return("Connection error"), store |-> store,
            opened |-> 0, closed |-> 0]
      [] ~NotSystemTable(table_name) ->
           [result |-> Return("is a system table and cannot be dropped"),
            store |-> store, opened |-> 1, closed |-> 1]
      [] fault = "query" ->
           [result |-> Return("Error dropping table"), store |-> store,
            opened |-> 1, closed |-> 1]
      [] OTHER ->
           [result |-> Return("dropped successfully"),
            store |-> [store EXCEPT ![Resolve(table_name)] = "absent"],
            opened |-> 1, closed |-> 1]

(* DatabaseInterface.create_table_from_query(table_name, source_query):    *)
(* DROP TABLE IF EXISTS unless the name is a system table, CREATE TABLE AS *)
(* (an error when the table exists), commit, then SELECT COUNT.  Fault     *)
(* "query" fails the CREATE, fault "count" the SELECT COUNT.               *)
CreateTableFromQuery(table_name, fault, store) ==
    LET t       == Resolve(table_name)
        dropped == IF NotSystemTable(table_name)
                   THEN [store EXCEPT ![t] = "absent"] ELSE store
        created == [dropped EXCEPT ![t] = "created"]
    IN  CASE fault = "connect" ->
               [result |-> Return("Connection error"), store |-> store,
                opened |-> 0, closed |-> 0]
          [] fault = "query" \/ dropped[t] # "absent" ->
               [result |-> Return("Error creating table"), store |-> store,
                opened |-> 1, closed |-> 1]
          [] fault = "count" ->
               [result |-> Return("Error creating table"), store |-> created,
                opened |-> 1, closed |-> 1]
          [] OTHER ->
               [result |-> Return("created successfully"), store |-> created,
                opened |-> 1, closed |-> 1]

TableCall(op, name, out) ==
    /\ executor = "DatabaseInterface"
    /\ call' = [op |-> op, min_sample_size |-> 0, name |-> name]
    /\ ret' = out.result
    /\ stored' = out.store
    /\ conn' = [opened |-> out.opened, closed |-> out.closed]
    /\ categories_filtered' = <<>>
    /\ tukey_df' = <<>>
    /\ UNCHANGED <<tables, np_random, earlier, environment, categories, threads>>

(* connected, status = check_db_connection(); if not connected: return    *)
(* status                                                                  *)
NotConnected(op) ==
    /\ call' = [op |-> op, min_sample_size |-> 0, name |-> "none"]
    /\ ret' = Return("Please configure database connection first")
    /\ fetch' = NoFetch
    /\ conn' = NoConn
    /\ categories_filtered' = <<>>
    /\ tukey_df' = <<>>
    /\ UNCHANGED <<tables, np_random, earlier, environment, categories, stored,
                   threads>>

(* run_read_only_query(query) of app.py *)
run_read_only_query ==
    IF db_interface = NoInterface THEN NotConnected("run_read_only_query")
    ELSE
    \E query \in QueryTexts, fault \in FaultsOf(db_faults) :
     \E target \in IF query = "commit_write" THEN StoredTables ELSE {"tmp"} :
       LET out == ReadOnlyQueryOnStore(query, target, age_table, fault, stored)
       IN  /\ TableCall("run_read_only_query", query, out)
           /\ fetch' = FetchNote(fault, out.result)

(* drop_table(table_name) of app.py *)
drop_table ==
    IF db_interface = NoInterface THEN NotConnected("drop_table")
    ELSE
    \E table_name \in TableNames, fault \in FaultsOf(db_faults) :
       /\ TableCall("drop_table", table_name, DropTable(table_name, fault, stored))
       /\ fetch' = [NoFetch EXCEPT !.fault = fault]

(* create_table_from_query(table_name, source_query) of app.py *)
create_table_from_query ==
    IF db_interface = NoInterface THEN NotConnected("create_table_from_query")
    ELSE
    \E table_name \in TableNames, fault \in FaultsOf(db_faults) \cup
                                            (IF db_faults THEN {"count"} ELSE {}) :
       /\ TableCall("create_table_from_query", table_name,
                    CreateTableFromQuery(table_name, fault, stored))
       /\ fetch' = [NoFetch EXCEPT !.fault = fault]

(* Either executor, with or without faults, and the table operations.      *)
InitDb ==
    /\ age_table = ScenarioRows
    /\ embedding_table = DefaultEmbedding
    /\ executor \in Executors
    /\ db_faults \in BOOLEAN
    /\ SetUp
    /\ InitCall

NextDb ==
    \/ anova(MaxMinSample)
    \/ tukey_test(MaxMinSample)
    \/ embedding_clustering
    \/ do_vector_centroid
    \/ run_read_only_query
    \/ drop_table
    \/ create_table_from_query

SpecDb == InitDb /\ [][NextDb]_vars

(***************************************************************************)
(* Engine calls running on several server threads at once.  A call is     *)
(* three steps: it is entered, it fetches its rows over its own           *)
(* connection, it computes on the rows it fetched.  The steps of          *)
(* different threads interleave freely; the threads share the module, the *)
(* process-wide generator and the database.                               *)
(***************************************************************************)
ThreadCalls ==
    {[op |-> "anova", min_sample_size |-> 1],
     [op |-> "anova", min_sample_size |-> MaxMinSample],
     [op |-> "tukey_test", min_sample_size |-> 1],
     [op |-> "embedding_clustering", min_sample_size |-> 0]}

InFlight(t) == threads[t].pc \in {"called", "fetched"}

(* another thread is inside a call while thread t takes a step *)
Overlaps(t) == \E u \in Threads \ {t} : InFlight(u)

Enter(t) ==
    /\ threads[t].pc \in {"idle", "done"}
    /\ \E c \in ThreadCalls :
          threads' = [threads EXCEPT ![t] =
                          [Idle EXCEPT !.pc = "called", !.op = c.op,
                                       !.min_sample_size = c.min_sample_size,
                                       !.overlapped = Overlaps(t)]]
    /\ UNCHANGED <<tables, np_random, call, categories_filtered, tukey_df, ret,
                   earlier, environment, fetch, conn, categories, stored>>

(* result = db_connection.read_only_query(query) *)
Fetch(t) ==
    /\ threads[t].pc = "called"
    /\ LET table == IF threads[t].op = "embedding_clustering"
                    THEN embedding_table ELSE age_table
           q     == read_only_query(executor, table, "none")
       IN  threads' = [threads EXCEPT
                          ![t].pc = "fetched",
                          ![t].result = q.result.value,
                          ![t].overlapped = threads[t].overlapped \/ Overlaps(t)]
    /\ UNCHANGED <<tables, np_random, call, categories_filtered, tukey_df, ret,
                   earlier, environment, fetch, conn, categories, stored>>

(* the rest of the function body, on the rows this thread fetched *)
Compute(t) ==
    /\ threads[t].pc = "fetched"
    /\ LET th     == threads[t]
           cats   == BuildCategories(th.result, NewCategories(categories))
           groups == FilterCategories(cats, th.min_sample_size)
           tukey  == TukeySummary(groups)
           out    == CASE th.op = "anova" -> AnovaResult(groups)
                       [] th.op = "tukey_test" ->
                            (IF tukey.kind = "return"
                             THEN Return(Significant(tukey.value))
                             ELSE tukey)
                       [] th.op = "embedding_clustering" ->
                            EmbeddingResult(th.result,
                                CheckRandomState(random_state, np_random))
       IN  /\ threads' = [threads EXCEPT
                            ![t].pc = "done",
                            ![t].ret = out,
                            ![t].overlapped = th.overlapped \/ Overlaps(t)]
           /\ categories' = IF th.op = "embedding_clustering"
                            THEN categories ELSE cats
           /\ np_random' = IF th.op = "embedding_clustering"
                           THEN AfterDraw(random_state, np_random)
                           ELSE np_random
    /\ UNCHANGED <<tables, call, categories_filtered, tukey_df, ret, earlier,
                   environment, fetch, conn, stored>>

InitThreads ==
    /\ age_table = ScenarioRows
    /\ embedding_table = Records(MaxRecords, "asc", "two")
    /\ executor = "DatabaseInterface"
    /\ db_faults = FALSE
    /\ SetUp
    /\ InitCall

NextThreads == \E t \in Threads : Enter(t) \/ Fetch(t) \/ Compute(t)

SpecThreads == InitThreads /\ [][NextThreads]_vars

(***************************************************************************)
(* The app: the module globals start unset, setup_database_connection      *)
(* sets them, and the operations of app.py are called in any order.        *)
(***************************************************************************)
Hosts == {"", "A", "B", "down"}

Ports == {"", "abc", "5432"}

(* int(text) on the text of a form field *)
IntOf(text) ==
    CASE text = "1"    -> Return(1)
      [] text = "3"    -> Return(3)
      [] text = "5432" -> Return(5432)
      [] OTHER         -> Raise("ValueError", "int")

(* the outcome of setup_database_connection(host, port, ...): the status   *)
(* it stores and the interface the global holds afterwards                 *)
SetupOutcome(host, port, interface) ==
    IF host = "" \/ port = ""
    THEN [status |-> Status(FALSE, "All fields are required", ""),
          interface |-> interface, opened |-> 0]
    ELSE IF IntOf(port).kind = "raise"
    THEN [status |-> Status(FALSE, "Port must be a valid number", ""),
          interface |-> interface, opened |-> 0]
    ELSE IF host = "down"
    THEN [status |-> Status(FALSE, "Connection failed", ""),
          interface |-> interface, opened |-> 0]
    ELSE [status |-> Status(TRUE, "Connected to", host),
          interface |-> Interface(host), opened |-> 1]

setup_database_connection ==
    \E host \in Hosts, port \in Ports :
       LET out == SetupOutcome(host, port, db_interface)
       IN  /\ db_interface' = out.interface
           /\ db_connection_status' = out.status
           /\ call' = [op |-> "setup_database_connection", min_sample_size |-> 0,
                       name |-> host]
           /\ ret' = Return([status |-> out.status, ok |-> out.status.connected])
           /\ fetch' = NoFetch
           /\ conn' = [opened |-> out.opened, closed |-> out.opened]
           /\ categories_filtered' = <<>>
           /\ tukey_df' = <<>>
           /\ UNCHANGED <<tables, np_random, earlier, executor, db_faults,
                          categories, stored, threads>>

(* get_schemas() of app.py *)
get_schemas ==
    IF db_interface = NoInterface THEN NotConnected("get_schemas")
    ELSE /\ call' = [op |-> "get_schemas", min_sample_size |-> 0, name |-> "none"]
         /\ ret' = Return("schemas")
         /\ fetch' = NoFetch
         /\ conn' = [opened |-> 1, closed |-> 1]
         /\ categories_filtered' = <<>>
         /\ tukey_df' = <<>>
         /\ UNCHANGED <<tables, np_random, earlier, environment, categories,
                        stored, threads>>

(* the text typed in the min_sample_size box *)
RawMinSample == {"", "abc", "1", "3"}

(* a wrapper of app.py that raises before the engine has fetched anything *)
WrapperRaises(op, raw, exception) ==
    /\ call' = [op |-> op, min_sample_size |-> 0, raw |-> raw]
    /\ ret' = exception
    /\ fetch' = NoFetch
    /\ conn' = NoConn
    /\ categories_filtered' = <<>>
    /\ tukey_df' = <<>>
    /\ UNCHANGED <<tables, np_random, earlier, environment, categories, stored,
                   threads>>

(* None.read_only_query *)
NoneTypeError == Raise("AttributeError", "NoneType")

(* do_annova(table_name, min_sample_size): the arguments, int() included,  *)
(* are evaluated before var_stats.anova is entered                         *)
do_annova ==
    \E raw \in RawMinSample :
       LET m == IntOf(raw)
       IN  IF m.kind = "raise" THEN WrapperRaises("do_annova", raw, m)
           ELSE IF db_interface = NoInterface
           THEN WrapperRaises("do_annova", raw, NoneTypeError)
           ELSE anova(m.value)

do_tukey_test ==
    \E raw \in RawMinSample :
       LET m == IntOf(raw)
       IN  IF m.kind = "raise" THEN WrapperRaises("do_tukey_test", raw, m)
           ELSE IF db_interface = NoInterface
           THEN WrapperRaises("do_tukey_test", raw, NoneTypeError)
           ELSE tukey_test(m.value)

do_tsne_embedding ==
    IF db_interface = NoInterface
    THEN WrapperRaises("do_tsne_embedding", "", NoneTypeError)
    ELSE embedding_clustering

InitApp ==
    /\ age_table = ScenarioRows
    /\ embedding_table = DefaultEmbedding
    /\ executor = "DatabaseInterface"
    /\ db_faults = FALSE
    /\ db_interface = NoInterface
    /\ db_connection_status = NotConnectedStatus
    /\ InitCall

NextApp ==
    \/ setup_database_connection
    \/ get_schemas
    \/ run_read_only_query
    \/ create_table_from_query
    \/ drop_table
    \/ do_annova
    \/ do_tukey_test
    \/ do_tsne_embedding
    \/ do_vector_centroid

SpecApp == InitApp /\ [][NextApp]_vars

(***************************************************************************)
(* Properties.                                                             *)
(***************************************************************************)
Grouped == call.op \in {"anova", "tukey_test"}

(* number of rows of label l whose value is not null, counted on the table *)
RetainedCount(l) ==
    Cardinality({i \in DOMAIN age_table :
                    age_table[i].product_type = l /\ age_table[i].age.t # "none"})

(* the non-null values of label l in row order, coerced to int *)
RetainedAges(l) ==
    LET sel == SelectSeq(age_table,
                         LAMBDA r : r.product_type = l /\ r.age.t # "none")
    IN  [i \in DOMAIN sel |-> CoerceAge(sel[i].age)]

(* C1: anova and tukey_test keep a category if and only if its number of   *)
(* retained (non-null) samples is strictly greater than min_sample_size;   *)
(* each kept category appears once and never as an empty group.            *)
C1_StrictThreshold ==
    Grouped =>
        /\ \A l \in Labels :
              l \in Keys(categories_filtered)
                  <=> RetainedCount(l) > call.min_sample_size
        /\ \A i, j \in DOMAIN categories_filtered :
              categories_filtered[i].k = categories_filtered[j].k => i = j
        /\ \A i \in DOMAIN categories_filtered :
              Len(categories_filtered[i].v) >= 1

(* a call with min_sample_size >= 1 that met a category of exactly         *)
(* min_sample_size samples and one of min_sample_size + 1 samples          *)
C1_Witness ==
    /\ Grouped
    /\ call.min_sample_size >= 1
    /\ \E a, b \in Labels :
          /\ RetainedCount(a) = call.min_sample_size
          /\ RetainedCount(b) = call.min_sample_size + 1
          /\ a \notin Keys(categories_filtered)
          /\ b \in Keys(categories_filtered)

(* C2: a row whose value is null is placed in no group and is not counted: *)
(* every group holds exactly the non-null values of its label in row       *)
(* order, and a label whose rows are all null is in no grouped dataset.    *)
C2_NullSkipped ==
    Grouped =>
        /\ \A i \in DOMAIN categories_filtered :
              categories_filtered[i].v = RetainedAges(categories_filtered[i].k)
        /\ \A l \in Labels :
              RetainedCount(l) = 0 => l \notin Keys(categories_filtered)

(* a call with min_sample_size = 0 on a table with an all-null label and a *)
(* kept label that has a null row among its rows                           *)
C2_Witness ==
    /\ Grouped
    /\ call.min_sample_size = 0
    /\ \E l \in Labels :
          /\ \E i \in DOMAIN age_table : age_table[i].product_type = l
          /\ RetainedCount(l) = 0
          /\ l \notin Keys(categories_filtered)
    /\ \E i \in DOMAIN age_table :
          /\ age_table[i].age.t = "none"
          /\ age_table[i].product_type \in Keys(categories_filtered)

(* C3: whenever fewer than 2 groups survive extraction, anova signals an   *)
(* InsufficientGroupsError and returns no F-statistic/p-value result.      *)
C3_InsufficientGroupsError ==
    (call.op = "anova" /\ Len(categories_filtered) < 2) =>
        (ret.kind = "raise" /\ ret.type = "InsufficientGroupsError")

TukeyReturned == call.op = "tukey_test" /\ ret.kind = "return"

(* C4: every row returned by tukey_test has reject = true, and every       *)
(* comparison of the full table whose reject flag is true is returned.     *)
C4_OnlyRejectSurfaced ==
    TukeyReturned =>
        /\ \A i \in DOMAIN ret.value : ret.value[i].reject = TRUE
        /\ \A j \in DOMAIN tukey_df :
              tukey_df[j].reject => \E i \in DOMAIN ret.value : ret.value[i] = tukey_df[j]

(* a returned call whose full table had a rejected and a retained pair     *)
C4_Witness ==
    /\ TukeyReturned
    /\ \E i, j \in DOMAIN tukey_df : tukey_df[i].reject /\ ~tukey_df[j].reject
    /\ Len(ret.value) >= 1

(* C5: the rows returned by tukey_test are in strictly ascending           *)
(* (group1, group2) order, so no pair appears twice, and group1 < group2   *)
(* in every row.                                                           *)
C5_OrderedPairs ==
    TukeyReturned =>
        /\ \A i \in DOMAIN ret.value : ret.value[i].group1 < ret.value[i].group2
        /\ \A i, j \in DOMAIN ret.value :
              i < j =>
                 \/ ret.value[i].group1 < ret.value[j].group1
                 \/ /\ ret.value[i].group1 = ret.value[j].group1
                    /\ ret.value[i].group2 < ret.value[j].group2

(* a returned call with two rows on a table whose labels were first met    *)
(* out of order                                                            *)
C5_Witness ==
    /\ TukeyReturned
    /\ Len(ret.value) >= 2
    /\ \E i, j \in DOMAIN categories_filtered :
          i < j /\ categories_filtered[i].k > categories_filtered[j].k

(* C6: when fewer than 2 groups survive extraction, tukey_test reports an  *)
(* InsufficientDataError instead of returning a comparison table.          *)
C6_InsufficientDataError ==
    (call.op = "tukey_test" /\ Len(categories_filtered) < 2) =>
        (ret.kind = "raise" /\ ret.type = "InsufficientDataError")

EmbeddingReturned == call.op = "embedding_clustering" /\ ret.kind = "return"

(* C7: a returned embedding_clustering result has four arrays of the       *)
(* length of the input, ids is the input identifiers in input order, and   *)
(* index i of the coordinates and labels belongs to record i: records      *)
(* with the same vector get the same point and label.                      *)
C7_ParallelArrays ==
    EmbeddingReturned =>
        LET n == Len(embedding_table)
            r == ret.value
        IN  /\ Len(r.ids) = n /\ Len(r.x_axis) = n
            /\ Len(r.y_axis) = n /\ Len(r.labels) = n
            /\ \A i \in 1..n : r.ids[i] = embedding_table[i].id
            /\ \A i, j \in 1..n :
                  embedding_table[i].embedding = embedding_table[j].embedding
                     => /\ r.x_axis[i] = r.x_axis[j]
                        /\ r.y_axis[i] = r.y_axis[j]
                        /\ r.labels[i] = r.labels[j]

(* a returned call on records met in descending id order, with two         *)
(* distinct clusters                                                       *)
C7_Witness ==
    /\ EmbeddingReturned
    /\ Len(embedding_table) > perplexity
    /\ embedding_table[1].id > embedding_table[2].id
    /\ \E i, j \in DOMAIN ret.value.labels :
          ret.value.labels[i] >= 0 /\ ret.value.labels[j] >= 0
          /\ ret.value.labels[i] # ret.value.labels[j]

(* C8: called with 1 to 9 records of equal vector length,                  *)
(* embedding_clustering returns a result whose every label is -1.          *)
C8_FewPointsAllNoise ==
    ( /\ call.op = "embedding_clustering"
      /\ Len(embedding_table) \in 1..9
      /\ EqualLengths(ArticleEmbeddings(embedding_table)) ) =>
        /\ ret.kind = "return"
        /\ \A i \in DOMAIN ret.value.labels : ret.value.labels[i] = -1

(* C9: an embedding_clustering call gives the same outcome as any earlier  *)
(* call on the same rows, whatever calls ran in between.                   *)
C9_Deterministic ==
    (call.op = "embedding_clustering" /\ earlier.kind # "none") => ret = earlier

(* a second returned call after a returned one was observed *)
C9_Witness ==
    /\ EmbeddingReturned
    /\ earlier.kind = "return"
    /\ Len(embedding_table) > perplexity

(* C10: on zero records embedding_clustering fails with EmptyInputError.   *)
C10_EmptyInputError ==
    (call.op = "embedding_clustering" /\ Len(embedding_table) = 0) =>
        (ret.kind = "raise" /\ ret.type = "EmptyInputError")

(* C11: when the vectors passed to embedding_clustering differ in length,  *)
(* the call fails with a DimensionMismatchError.                           *)
C11_DimensionMismatchError ==
    ( /\ call.op = "embedding_clustering"
      /\ fetch.kind = "return"
      /\ ~EqualLengths(ArticleEmbeddings(embedding_table)) ) =>
        (ret.kind = "raise" /\ ret.type = "DimensionMismatchError")

(* coordinate-wise arithmetic mean, each coordinate as the fraction        *)
(* <<sum, count>>                                                          *)
CentroidOf(X) ==
    [c \in 1..Len(X[1]) |-> <<SumSeq([i \in DOMAIN X |-> X[i][c]]), Len(X)>>]

(* C12: for a non-empty list of equal-length vectors do_vector_centroid    *)
(* returns the coordinate-wise arithmetic mean of the vectors.             *)
C12_CentroidIsMean ==
    ( /\ call.op = "do_vector_centroid"
      /\ embedding_table # <<>>
      /\ EqualLengths(ArticleEmbeddings(embedding_table)) ) =>
        /\ ret.kind = "return"
        /\ ret.value = CentroidOf(ArticleEmbeddings(embedding_table))

(* C13: the centroid operation fails with DimensionMismatchError when its  *)
(* vectors differ in length and with EmptyInputError on zero records.      *)
C13_CentroidErrors ==
    call.op = "do_vector_centroid" =>
        /\ embedding_table = <<>> =>
              (ret.kind = "raise" /\ ret.type = "EmptyInputError")
        /\ ~EqualLengths(ArticleEmbeddings(embedding_table)) =>
              (ret.kind = "raise" /\ ret.type = "DimensionMismatchError")

EngineOps == {"anova", "tukey_test", "embedding_clustering"}

(* exception types raised by the engines' own computation *)
ComputationErrors == {"ValueError", "IndexError", "TypeError", "KeyError"}

(* C16: when the row fetch fails, the engine computes nothing and the      *)
(* caller gets the error raised by the fetch, for either executor; the     *)
(* fetch never hands the engine an error text in place of rows.            *)
C16_FetchFailureSurfaced ==
    (call.op \in EngineOps /\ fetch.fault # "none") =>
        /\ fetch.kind = "raise"
        /\ ret.kind = "raise"
        /\ ret.type = fetch.type
        /\ ret.type \notin ComputationErrors

ReadOnlyQueryOps == EngineOps \cup {"run_read_only_query"}

(* C17: every DatabaseInterface.read_only_query call closes each           *)
(* connection it opened, and a failed call shows its caller the original   *)
(* failure: ConnectionError when the server cannot be reached, the         *)
(* database error when the statement fails.                                *)
C17_ConnectionReleased ==
    (call.op \in ReadOnlyQueryOps /\ executor = "DatabaseInterface") =>
        /\ conn.opened = conn.closed
        /\ fetch.fault = "connect" =>
              (ret.kind = "raise" /\ ret.type = "ConnectionError")
        /\ fetch.fault = "query" =>
              (ret.kind = "raise" /\ ret.type = "psycopg2.Error")

(* C19: a run of read_only_query, whatever the query text, leaves every    *)
(* stored table as it was.                                                 *)
C19_ReadOnly ==
    [][call'.op = "run_read_only_query" => stored' = stored]_vars

(* C20: drop_table and create_table_from_query, with any table name, leave *)
(* every core table as it was, and drop_table naming a core table returns  *)
(* the system-table message.                                               *)
C20_CoreTablesProtected ==
    [][call'.op \in {"drop_table", "create_table_from_query"} =>
          /\ \A c \in CoreTables : stored'[c] = stored[c]
          /\ (call'.op = "drop_table" /\ Resolve(call'.name) \in CoreTables) =>
                ret'.value = "is a system table and cannot be dropped"]_vars

(* C14: embedding_clustering never truncates its input: called with more   *)
(* records than the advisory limit of 500 it processes all of them, and    *)
(* each of the four returned arrays has one entry per record.              *)
C14_NoTruncation ==
    (EmbeddingReturned /\ Len(embedding_table) > AdvisoryLimit) =>
        /\ Len(ret.value.ids) = Len(embedding_table)
        /\ Len(ret.value.x_axis) = Len(embedding_table)
        /\ Len(ret.value.y_axis) = Len(embedding_table)
        /\ Len(ret.value.labels) = Len(embedding_table)

C14_Witness ==
    /\ EmbeddingReturned
    /\ Len(embedding_table) = AdvisoryLimit + 1
    /\ Len(ret.value.labels) = AdvisoryLimit + 1
    /\ ret.value.ids[AdvisoryLimit + 1] = embedding_table[AdvisoryLimit + 1].id

(* what a call returns in a process that has made no call before *)
FirstCallResult(op, min_sample_size) ==
    CASE op = "anova" ->
           AnovaResult(ExtractGroups(age_table, min_sample_size))
      [] op = "tukey_test" ->
           (LET tukey == TukeySummary(ExtractGroups(age_table, min_sample_size))
            IN  IF tukey.kind = "return"
                THEN Return(Significant(tukey.value))
                ELSE tukey)
      [] op = "embedding_clustering" ->
           EmbeddingResult(embedding_table, CheckRandomState(random_state, 0))

(* C15: no engine keeps state between calls: after any sequence of earlier *)
(* calls, returned or raised, a call's result is the one the same rows and *)
(* parameters give in a fresh process, and the process-wide generator is   *)
(* left as it was.                                                         *)
C15_NoRetainedState ==
    /\ np_random = 0
    /\ (call.op \in EngineOps /\ fetch.kind = "return") =>
          ret = FirstCallResult(call.op, call.min_sample_size)

C15_Witness ==
    /\ call.op = "anova"
    /\ ret.kind = "return"
    /\ earlier.kind = "return"
    /\ np_random = 0

(* what the call of a thread returns when it runs alone in a fresh process *)
(* on the rows it fetched                                                  *)
Alone(th) ==
    CASE th.op = "anova" ->
           AnovaResult(ExtractGroups(th.result, th.min_sample_size))
      [] th.op = "tukey_test" ->
           (LET tukey == TukeySummary(ExtractGroups(th.result, th.min_sample_size))
            IN  IF tukey.kind = "return"
                THEN Return(Significant(tukey.value))
                ELSE tukey)
      [] th.op = "embedding_clustering" ->
           EmbeddingResult(th.result, CheckRandomState(random_state, 0))

(* C18: engine calls running at the same time do not affect each other:    *)
(* under every interleaving of their steps, each finished call has the     *)
(* result it would have running alone on the rows it fetched.              *)
C18_ConcurrentCallsIndependent ==
    \A t \in Threads : threads[t].pc = "done" => threads[t].ret = Alone(threads[t])

C18_Witness ==
    \E t, u \in Threads :
        /\ t # u
        /\ threads[t].pc = "done" /\ threads[t].overlapped
        /\ threads[u].pc = "done" /\ threads[u].overlapped
        /\ threads[t].op = "embedding_clustering" /\ threads[t].ret.kind = "return"
        /\ threads[u].op = "anova" /\ threads[u].ret.kind = "return"

AnovaReturned == call.op = "anova" /\ ret.kind = "return"

(* the mean of every group is the same fraction *)
EqualMeans(groups) ==
    \A i, j \in DOMAIN groups :
        SumSeq(groups[i].v) * Len(groups[j].v) = SumSeq(groups[j].v) * Len(groups[i].v)

(* every group holds one value repeated *)
ZeroWithinVariance(groups) ==
    \A i \in DOMAIN groups : \A a, b \in DOMAIN groups[i].v :
        groups[i].v[a] = groups[i].v[b]

(* C21: for at least 2 surviving groups with equal means and non-zero      *)
(* within-group variance, anova returns F-statistic 0 and p-value 1.       *)
C21_EqualMeansZeroF ==
    ( /\ call.op = "anova"
      /\ fetch.kind = "return"
      /\ Len(categories_filtered) >= 2
      /\ EqualMeans(categories_filtered)
      /\ ~ZeroWithinVariance(categories_filtered) ) =>
        /\ ret.kind = "return"
        /\ ret.value.F = [t |-> "num", v |-> 0]
        /\ ret.value.p = [t |-> "num", v |-> 1000]

C21_Witness ==
    /\ AnovaReturned
    /\ Len(categories_filtered) = 3
    /\ EqualMeans(categories_filtered)
    /\ ~ZeroWithinVariance(categories_filtered)
    /\ ret.value.F.v = 0

C23_ZeroVarianceLiteral ==
    ( /\ call.op = "anova"
      /\ fetch.kind = "return"
      /\ Len(categories_filtered) >= 2
      /\ ZeroWithinVariance(categories_filtered) ) =>
        /\ ret.kind = "return"
        /\ ret.value.F.t \in {"inf", "nan"}
        /\ ret.value.F.t = "inf" => ret.value.p = [t |-> "num", v |-> 0]
        /\ ret.value.F.t = "nan" => ret.value.p.t = "nan"

C23_Witness ==
    /\ AnovaReturned
    /\ Len(categories_filtered) >= 2
    /\ ZeroWithinVariance(categories_filtered)
    /\ ~EqualMeans(categories_filtered)
    /\ ret.value.F.t = "inf"

(* C25: tukey_test extracts the groups as anova does: on the same fetched  *)
(* rows and min_sample_size, the surviving categories and the ordered      *)
(* samples of each are those of anova's extraction.                        *)
C25_SameExtraction ==
    (call.op \in {"anova", "tukey_test"} /\ fetch.kind = "return") =>
        categories_filtered = ExtractGroups(age_table, call.min_sample_size)

C25_Witness ==
    /\ call.op = "tukey_test"
    /\ fetch.kind = "return"
    /\ Len(categories_filtered) >= 2
    /\ Len(categories_filtered) < Len(categories)
    /\ \E i \in DOMAIN categories : Len(categories[i].v) = call.min_sample_size

(* C26: an engine call makes exactly one row fetch, before it groups or    *)
(* computes anything, and does not retry a failed one: a DatabaseInterface *)
(* call opens one connection at most, a fetch that met a fault never ends  *)
(* with rows, and after a raised fetch nothing is computed and the caller  *)
(* gets the fetch's exception.                                             *)
C26_SingleFetchFirst ==
    call.op \in EngineOps =>
        /\ executor = "DatabaseInterface" =>
              /\ conn.opened = (IF fetch.fault = "connect" THEN 0 ELSE 1)
              /\ conn.closed = conn.opened
        /\ fetch.fault # "none" => fetch.kind # "return"
        /\ fetch.kind = "raise" =>
              /\ ret.kind = "raise" /\ ret.type = fetch.type
              /\ categories_filtered = <<>>
              /\ tukey_df = <<>>

C26_Witness ==
    /\ call.op \in EngineOps
    /\ executor = "DatabaseInterface"
    /\ fetch.fault = "query"
    /\ fetch.kind = "raise"
    /\ conn.opened = 1
    /\ ret.kind = "raise"

C30_CreateAtomic ==
    [][call'.op = "create_table_from_query" =>
          /\ ret'.value \in {"Error creating table", "Connection error"} =>
                stored' = stored
          /\ stored' # stored => ret'.value = "created successfully"]_vars

(* C24: a malformed min_sample_size makes do_annova and do_tukey_test fail *)
(* with an InputValidationError reported to the caller.                    *)
C24_InputValidationError ==
    ( /\ call.op \in {"do_annova", "do_tukey_test"}
      /\ IntOf(call.raw).kind = "raise" ) =>
        (ret.kind = "raise" /\ ret.type = "InputValidationError")

(* C28: after any sequence of setup_database_connection calls the status   *)
(* reports a connection exactly when db_interface is set, and the          *)
(* interface is the one built from the configuration the status names.     *)
C28_StatusMatchesInterface ==
    /\ db_connection_status.connected <=> db_interface # NoInterface
    /\ db_interface # NoInterface =>
          db_interface = Interface(db_connection_status.host)

AppOps ==
    {"get_schemas", "run_read_only_query", "create_table_from_query", "drop_table",
     "do_annova", "do_tukey_test", "do_tsne_embedding", "do_vector_centroid"}

(* C29: an operation of the app called before any successful setup makes   *)
(* no query and returns the missing-connection status to its caller.       *)
C29_MissingConnectionReported ==
    (call.op \in AppOps /\ db_interface = NoInterface) =>
        /\ ret = Return("Please configure database connection first")
        /\ fetch = NoFetch
        /\ conn = NoConn
====
